---- MODULE Spec2Model ----
(***************************************************************************)
(* Model of the batched, concurrent fraud-detection engine of main.go:     *)
(* detectFraud partitions the transactions into batches of batchSize,      *)
(* starts one goroutine per batch that runs processBatch and appends its   *)
(* output to the shared results slice under a mutex, waits for all of them *)
(* and returns the merged slice.                                           *)
(*                                                                         *)
(* Units: amounts are integer cents, timestamps and durations are integer  *)
(* seconds.                                                                *)
(***************************************************************************)
EXTENDS Integers, Sequences, FiniteSets, Bags, TLC

\* ------------------------------------------------------------------------
\* State
\* ------------------------------------------------------------------------
VARIABLES
  transactions,  \* detectFraud's argument
  config,        \* detectFraud's argument
  results,       \* var results []FraudResult, shared by the goroutines
  mu,            \* sync.Mutex: << >> when unlocked, <<g>> when goroutine g holds it
  wg,            \* sync.WaitGroup counter
  batches,       \* number of batches
  i,             \* loop index of the dispatch loop
  pc,            \* detectFraud's position
  gpc,           \* position of each goroutine
  batch,         \* each goroutine's argument
  batchResults,  \* each goroutine's local batchResults
  appended,      \* each goroutine's append(results, batchResults...) before it is stored
  returned       \* the value detectFraud returned

\* ------------------------------------------------------------------------
\* Bounds of the model
\* ------------------------------------------------------------------------
\* largest number of batches an enumerated input is cut into
MaxBatches == 3
\* largest length of the inputs enumerated exhaustively over Templates
ShortLen == 3
\* number of freely chosen transactions that end each long input
WindowLen == 3

\* ------------------------------------------------------------------------
\* Program constants
\* ------------------------------------------------------------------------
batchSize == 100
\* time.Minute, in seconds
Minute == 60
\* default of the -amount flag, in cents
DefaultThreshold == 100000
\* default of the -window flag, in minutes
DefaultWindow == 5

\* ------------------------------------------------------------------------
\* Data
\* ------------------------------------------------------------------------
Transaction(id, amount, ts, acct, merchant) ==
  [ID |-> id, Amount |-> amount, Timestamp |-> ts, AccountID |-> acct, Merchant |-> merchant]

FraudResult_Redacted(tx, reason) ==
  [Transaction |-> [tx EXCEPT !.Merchant = ""], Reason |-> reason]

FraudResult(tx, reason) == [Transaction |-> tx, Reason |-> reason]

Config(highAmount, timeWindow) ==
  [HighAmountThreshold |-> highAmount, TimeWindow |-> timeWindow * Minute]

\* fmt's %.2f applied to an amount: sign, whole units, two decimals
FormatAmount(a) ==
  IF a < 0 THEN <<"-", (-a) \div 100, (-a) % 100>> ELSE <<"", a \div 100, a % 100>>

\* fmt's %v applied to a positive time.Duration: minutes and seconds
FormatDuration(d) == <<d \div Minute, d % Minute>>

HighAmountReason(tx) == <<"High amount", FormatAmount(tx.Amount)>>
RapidLaterReason(timeDiff, nextTx) ==
  <<"Rapid transaction later", FormatDuration(timeDiff), FormatAmount(nextTx.Amount)>>
RapidFollowingReason(tx, timeDiff) ==
  <<"Rapid transaction following", FormatAmount(tx.Amount), FormatDuration(timeDiff)>>

\* ------------------------------------------------------------------------
\* processBatch
\* ------------------------------------------------------------------------
HighAmountFires_Magnitude(tx, cfg) ==
  (IF tx.Amount < 0 THEN -tx.Amount ELSE tx.Amount) > cfg.HighAmountThreshold

HighAmountFires_AtLeast(tx, cfg) == tx.Amount >= cfg.HighAmountThreshold

HighAmountFires(tx, cfg) == tx.Amount > cfg.HighAmountThreshold

SameAccount(tx, nextTx) == nextTx.AccountID = tx.AccountID

RapidFires_Inclusive(timeDiff, cfg) == timeDiff <= cfg.TimeWindow /\ timeDiff > 0

RapidFires(timeDiff, cfg) == timeDiff < cfg.TimeWindow /\ timeDiff > 0

\* the results of one iteration of the loop over j, for the pair (i, j)
RapidPair(tx, nextTx, cfg) ==
  IF ~SameAccount(tx, nextTx) THEN << >>
  ELSE LET timeDiff == nextTx.Timestamp - tx.Timestamp IN
       IF RapidFires(timeDiff, cfg)
       THEN << FraudResult(tx, RapidLaterReason(timeDiff, nextTx)),
               FraudResult(nextTx, RapidFollowingReason(tx, timeDiff)) >>
       ELSE << >>

\* the loop over j = i+1 .. len(batch)-1, from position bj on (positions are
\* 1-based here): what it appends to batchResults, in order
RapidLoop_NeighbourOnly(b, cfg, bi, bj) ==
  IF bj > Len(b) THEN << >> ELSE RapidPair(b[bi], b[bj], cfg)

RECURSIVE RapidLoop(_, _, _, _)
RapidLoop(b, cfg, bi, bj) ==
  IF bj > Len(b) THEN << >>
  ELSE RapidPair(b[bi], b[bj], cfg) \o RapidLoop(b, cfg, bi, bj + 1)

\* the Rule 1 part of one iteration of the loop over i
HighAmount(tx, cfg) ==
  IF HighAmountFires(tx, cfg) THEN << FraudResult(tx, HighAmountReason(tx)) >> ELSE << >>

\* the loop over i, tx := range batch, from position bi on: what it appends to
\* batchResults, in order
RECURSIVE BatchLoop(_, _, _)
BatchLoop(b, cfg, bi) ==
  IF bi > Len(b) THEN << >>
  ELSE HighAmount(b[bi], cfg) \o RapidLoop(b, cfg, bi, bi + 1) \o BatchLoop(b, cfg, bi + 1)

\* ------------------------------------------------------------------------
\* detectFraud: partitioning
\* ------------------------------------------------------------------------
NumBatches_AtLeastOne(len) == IF len = 0 THEN 1 ELSE (len + batchSize - 1) \div batchSize

NumBatches_NoRemainder(len) == len \div batchSize

\* batches := len/batchSize, plus one when there is a remainder
NumBatches(len) == (len \div batchSize) + (IF len % batchSize # 0 THEN 1 ELSE 0)

\* start := i * batchSize
BatchStart(k) == k * batchSize

BatchEnd_Overlap(k, len) ==
  IF BatchStart(k) + batchSize + 1 > len THEN len ELSE BatchStart(k) + batchSize + 1

\* end := start + batchSize, clipped to len(transactions)
BatchEnd(k, len) == IF BatchStart(k) + batchSize > len THEN len ELSE BatchStart(k) + batchSize

\* transactions[start:end] for loop index k (0-based, half-open as in Go)
BatchSlice(txs, k) == SubSeq(txs, BatchStart(k) + 1, BatchEnd(k, Len(txs)))

\* ------------------------------------------------------------------------
\* Inputs: what main hands to detectFraud
\* ------------------------------------------------------------------------
Filler == Transaction("F", 1000, 0, "ACC0", "Store F")

Templates ==
  { Transaction("T1", DefaultThreshold,     0,   "ACC1", "Store A"),
    Transaction("T2", DefaultThreshold + 1, 120, "ACC1", "Store B"),
    Transaction("T3", -50,                  300, "ACC1", "Store A"),
    Transaction("T4", 150000,               240, "ACC1", "Store C"),
    Transaction("T5", 0,                    0,   "ACC2", "Store C") }

\* the transactions placed in the free window of the long inputs
WindowTemplates == { t \in Templates : t.ID \in {"T1", "T2"} }

\* values of the -amount and -window flags
Configs ==
  { Config(DefaultThreshold, w) : w \in {-DefaultWindow, 0, DefaultWindow} }
    \cup { Config(a, DefaultWindow) : a \in {-100, 0} }

LongConfigs == { Config(DefaultThreshold, DefaultWindow) }

\* every sequence over Templates of length 0..ShortLen
ShortInputs == UNION { [1..len -> Templates] : len \in 0..ShortLen }

\* lengths of the long inputs: full batches, and full batches plus a short one
LongLengths == { k * batchSize + r : k \in 1..(MaxBatches - 1), r \in {0, WindowLen - 1} }

\* the long inputs: fillers, except for WindowLen freely chosen transactions.
\* When the length is a multiple of batchSize they are the last ones of the
\* last batch; otherwise one of them ends the last full batch and the others
\* follow it in the short batch.
LongInputs ==
  { [p \in 1..len |->
       IF p > len - WindowLen THEN w[p - (len - WindowLen)] ELSE Filler] :
      len \in LongLengths, w \in [1..WindowLen -> WindowTemplates] }

Runs == (ShortInputs \X Configs) \cup (LongInputs \X LongConfigs)

\* ------------------------------------------------------------------------
\* processBatch, tabulated over the batches of the enumerated inputs
\* ------------------------------------------------------------------------
BatchRuns ==
  UNION { { <<BatchSlice(run[1], k), run[2]>> : k \in 0..(NumBatches(Len(run[1])) - 1) } : run \in Runs }

ProcessBatchTable == [x \in BatchRuns |-> BatchLoop(x[1], x[2], 1)]

processBatch(b, cfg) ==
  IF <<b, cfg>> \in DOMAIN ProcessBatchTable
  THEN ProcessBatchTable[<<b, cfg>>]
  ELSE BatchLoop(b, cfg, 1)

\* ------------------------------------------------------------------------
\* Initial state: detectFraud is entered
\* ------------------------------------------------------------------------
vars == <<transactions, config, results, mu, wg, batches, i, pc, gpc, batch,
          batchResults, appended, returned>>

Goroutines == 0..(MaxBatches - 1)

Init ==
  /\ \E run \in Runs : transactions = run[1] /\ config = run[2]
  /\ results = << >>
  /\ mu = << >>
  /\ wg = 0
  /\ batches = 0
  /\ i = 0
  /\ pc = "partition"
  /\ gpc = [g \in Goroutines |-> "notStarted"]
  /\ batch = [g \in Goroutines |-> << >>]
  /\ batchResults = [g \in Goroutines |-> << >>]
  /\ appended = [g \in Goroutines |-> << >>]
  /\ returned = << >>

\* ------------------------------------------------------------------------
\* detectFraud
\* ------------------------------------------------------------------------
\* lines 157-161: count the batches
Partition ==
  /\ pc = "partition"
  /\ batches' = NumBatches(Len(transactions))
  /\ i' = 0
  /\ pc' = "loop"
  /\ UNCHANGED <<transactions, config, results, mu, wg, gpc, batch, batchResults,
                 appended, returned>>

\* lines 163-179: one iteration of the dispatch loop: wg.Add(1) and go func(batch)
Dispatch ==
  /\ pc = "loop"
  /\ i < batches
  /\ wg' = wg + 1
  /\ batch' = [batch EXCEPT ![i] = BatchSlice(transactions, i)]
  /\ gpc' = [gpc EXCEPT ![i] = "processBatch"]
  /\ i' = i + 1
  /\ UNCHANGED <<transactions, config, results, mu, batches, pc, batchResults,
                 appended, returned>>

\* line 163: the loop condition fails
LoopExit ==
  /\ pc = "loop"
  /\ ~(i < batches)
  /\ pc' = "wait"
  /\ UNCHANGED <<transactions, config, results, mu, wg, batches, i, gpc, batch,
                 batchResults, appended, returned>>

WaitEnabled_NoBarrier(counter) == TRUE

\* line 181: wg.Wait() returns once the counter is zero
WaitEnabled(counter) == counter = 0

Wait ==
  /\ pc = "wait"
  /\ WaitEnabled(wg)
  /\ pc' = "return"
  /\ UNCHANGED <<transactions, config, results, mu, wg, batches, i, gpc, batch,
                 batchResults, appended, returned>>

\* line 183: return results
Return ==
  /\ pc = "return"
  /\ returned' = results
  /\ pc' = "done"
  /\ UNCHANGED <<transactions, config, results, mu, wg, batches, i, gpc, batch,
                 batchResults, appended>>

\* ------------------------------------------------------------------------
\* the goroutine of one batch
\* ------------------------------------------------------------------------
\* line 173: batchResults := processBatch(batch, config)
Compute(g) ==
  /\ gpc[g] = "processBatch"
  /\ batchResults' = [batchResults EXCEPT ![g] = processBatch(batch[g], config)]
  /\ gpc' = [gpc EXCEPT ![g] = "lock"]
  /\ UNCHANGED <<transactions, config, results, mu, wg, batches, i, pc, batch,
                 appended, returned>>

LockEnabled_NoMutex(m) == TRUE

\* line 175: mu.Lock() blocks while another goroutine holds the mutex
LockEnabled(m) == m = << >>

Lock(g) ==
  /\ gpc[g] = "lock"
  /\ LockEnabled(mu)
  /\ mu' = <<g>>
  /\ gpc' = [gpc EXCEPT ![g] = "append"]
  /\ UNCHANGED <<transactions, config, results, wg, batches, i, pc, batch,
                 batchResults, appended, returned>>

AppendValue_Interleaved(res, br) ==
  IF res = << >> THEN br ELSE <<Head(res)>> \o br \o Tail(res)

AppendValue_Overwrite(res, br) == br

AppendValue_Reversed(res, br) == res \o [k \in 1..Len(br) |-> br[Len(br) + 1 - k]]

\* line 176: the value of append(results, batchResults...)
AppendValue(res, br) == res \o br

\* line 176, right-hand side: append(results, batchResults...) reads results
AppendRead(g) ==
  /\ gpc[g] = "append"
  /\ appended' = [appended EXCEPT ![g] = AppendValue(results, batchResults[g])]
  /\ gpc' = [gpc EXCEPT ![g] = "store"]
  /\ UNCHANGED <<transactions, config, results, mu, wg, batches, i, pc, batch,
                 batchResults, returned>>

\* line 176, assignment: results = ...
AppendStore(g) ==
  /\ gpc[g] = "store"
  /\ results' = appended[g]
  /\ gpc' = [gpc EXCEPT ![g] = "unlock"]
  /\ UNCHANGED <<transactions, config, mu, wg, batches, i, pc, batch,
                 batchResults, appended, returned>>

Unlock_NoRelease(g) ==
  /\ gpc[g] = "unlock"
  /\ gpc' = [gpc EXCEPT ![g] = "wgDone"]
  /\ UNCHANGED <<transactions, config, results, mu, wg, batches, i, pc, batch,
                 batchResults, appended, returned>>

\* line 177: mu.Unlock()
Unlock(g) ==
  /\ gpc[g] = "unlock"
  /\ mu' = << >>
  /\ gpc' = [gpc EXCEPT ![g] = "wgDone"]
  /\ UNCHANGED <<transactions, config, results, wg, batches, i, pc, batch,
                 batchResults, appended, returned>>

\* line 172: the deferred wg.Done()
WgDone(g) ==
  /\ gpc[g] = "wgDone"
  /\ wg' = wg - 1
  /\ gpc' = [gpc EXCEPT ![g] = "finished"]
  /\ UNCHANGED <<transactions, config, results, mu, batches, i, pc, batch,
                 batchResults, appended, returned>>

Next ==
  \/ Partition
  \/ Dispatch
  \/ LoopExit
  \/ Wait
  \/ Return
  \/ \E g \in Goroutines : Compute(g)
  \/ \E g \in Goroutines : Lock(g)
  \/ \E g \in Goroutines : AppendRead(g)
  \/ \E g \in Goroutines : AppendStore(g)
  \/ \E g \in Goroutines : Unlock(g)
  \/ \E g \in Goroutines : WgDone(g)

Spec == Init /\ [][Next]_vars

\* the steps of detectFraud's own goroutine
Main == Partition \/ Dispatch \/ LoopExit \/ Wait \/ Return

\* the steps of the goroutine of batch g
Worker(g) ==
  Compute(g) \/ Lock(g) \/ AppendRead(g) \/ AppendStore(g) \/ Unlock(g) \/ WgDone(g)

\* the runs of the fair specification: one input of every enumerated length,
\* its transactions other than the fillers all above the threshold, so that
\* the goroutines have results to merge. No guard of an action reads the
\* content of a transaction, only the number of batches.
FairRuns == { run \in Runs : \A p \in DOMAIN run[1] : run[1][p].ID \in {"F", "T2"} }

FairInit ==
  /\ \E run \in FairRuns : transactions = run[1] /\ config = run[2]
  /\ results = << >>
  /\ mu = << >>
  /\ wg = 0
  /\ batches = 0
  /\ i = 0
  /\ pc = "partition"
  /\ gpc = [g \in Goroutines |-> "notStarted"]
  /\ batch = [g \in Goroutines |-> << >>]
  /\ batchResults = [g \in Goroutines |-> << >>]
  /\ appended = [g \in Goroutines |-> << >>]
  /\ returned = << >>

\* the Go scheduler runs every goroutine that stays runnable
FairSpec ==
  /\ FairInit
  /\ [][Next]_vars
  /\ WF_vars(Main)
  /\ \A g \in Goroutines : WF_vars(Worker(g))

\* ------------------------------------------------------------------------
\* Vocabulary of the properties
\* ------------------------------------------------------------------------
\* a sequence as a multiset
SeqBag(s) ==
  [x \in { s[k] : k \in DOMAIN s } |-> Cardinality({ k \in DOMAIN s : s[k] = x })]

\* the batch of a position (positions are 1-based here, 0-based in the code)
BatchOf(p) == (p - 1) \div batchSize

IsHighAmount(r) == r.Reason[1] = "High amount"
IsRapid(r) == r.Reason[1] \in {"Rapid transaction later", "Rapid transaction following"}

\* the two results of a rapid-succession pair: tx earlier, nextTx later
LaterResult(tx, nextTx) ==
  FraudResult(tx, RapidLaterReason(nextTx.Timestamp - tx.Timestamp, nextTx))
FollowingResult(tx, nextTx) ==
  FraudResult(nextTx, RapidFollowingReason(tx, nextTx.Timestamp - tx.Timestamp))

\* same account and 0 < diff < timeWindow
Qualifies(tx, nextTx, cfg) ==
  /\ tx.AccountID = nextTx.AccountID
  /\ 0 < nextTx.Timestamp - tx.Timestamp
  /\ nextTx.Timestamp - tx.Timestamp < cfg.TimeWindow

PositionsOf(txs, tx) == { p \in DOMAIN txs : txs[p] = tx }

\* all pairs of positions p < q of txs whose transactions qualify, found
\* through the pairs of distinct transaction values that qualify
QualifyingPairs(txs, cfg) ==
  LET values == { txs[p] : p \in DOMAIN txs }
  IN UNION { { pq \in PositionsOf(txs, ab[1]) \X PositionsOf(txs, ab[2]) : pq[1] < pq[2] } :
               ab \in { vw \in values \X values : Qualifies(vw[1], vw[2], cfg) } }

SameBatchPairs(txs, cfg) == { pq \in QualifyingPairs(txs, cfg) : BatchOf(pq[1]) = BatchOf(pq[2]) }
CrossBatchPairs(txs, cfg) == { pq \in QualifyingPairs(txs, cfg) : BatchOf(pq[1]) # BatchOf(pq[2]) }

\* the multiset holding, for every pair of pairs, its two results
PairResultsBag(txs, pairs) ==
  LET rs == { LaterResult(txs[pq[1]], txs[pq[2]]) : pq \in pairs }
              \cup { FollowingResult(txs[pq[1]], txs[pq[2]]) : pq \in pairs }
  IN [r \in rs |->
        Cardinality({ pq \in pairs : LaterResult(txs[pq[1]], txs[pq[2]]) = r })
        + Cardinality({ pq \in pairs : FollowingResult(txs[pq[1]], txs[pq[2]]) = r })]

\* number of copies of r in the multiset bag
Copies(bag, r) == IF r \in DOMAIN bag THEN bag[r] ELSE 0

\* the batch outputs concatenated in batch order, from batch k on
RECURSIVE SequentialResults(_, _, _)
SequentialResults(txs, cfg, k) ==
  IF k * batchSize >= Len(txs) THEN << >>
  ELSE processBatch(SubSeq(txs, k * batchSize + 1,
                           IF (k + 1) * batchSize < Len(txs) THEN (k + 1) * batchSize
                           ELSE Len(txs)),
                    cfg)
       \o SequentialResults(txs, cfg, k + 1)

Done == pc = "done"

\* the goroutines the dispatch loop starts
Started == { g \in Goroutines : g < batches }

InCriticalSection(g) == gpc[g] \in {"append", "store", "unlock"}

\* ------------------------------------------------------------------------
\* C1
\* ------------------------------------------------------------------------
\* C1: the multiset of results detectFraud returns is a function of the input
\* and the configuration alone: under every interleaving of the goroutines it
\* is the multiset of the batch outputs taken in batch order.
C1_ResultMultisetIndependentOfInterleaving ==
  Done => SeqBag(returned) = SeqBag(SequentialResults(transactions, config, 0))

\* a run in which a later batch was merged before an earlier one
C1_Witness ==
  /\ Done
  /\ batches >= 2
  /\ returned # SequentialResults(transactions, config, 0)

\* ------------------------------------------------------------------------
\* C2
\* ------------------------------------------------------------------------
\* the batches handed to the goroutines, concatenated from batch k on
RECURSIVE ConcatBatches(_)
ConcatBatches(k) == IF k >= batches THEN << >> ELSE batch[k] \o ConcatBatches(k + 1)

\* C2: once the dispatch loop is over, there are ceil(L/batchSize) batches,
\* batch k is the contiguous range of the input that starts at position
\* k*batchSize, every batch but the last has batchSize elements, none is
\* empty, and the batches concatenated in index order are the input.
C2_PartitionCoversInput ==
  pc \in {"wait", "return", "done"} =>
    /\ batches * batchSize >= Len(transactions)
    /\ (batches - 1) * batchSize < Len(transactions)
    /\ batches <= MaxBatches
    /\ \A g \in Goroutines : g >= batches => gpc[g] = "notStarted"
    /\ \A g \in Started :
         /\ Len(batch[g]) >= 1
         /\ g < batches - 1 => Len(batch[g]) = batchSize
         /\ Len(batch[g]) <= batchSize
         /\ \A p \in 1..Len(batch[g]) : batch[g][p] = transactions[g * batchSize + p]
    /\ ConcatBatches(0) = transactions

\* an input cut into at least two batches whose last batch is short
C2_Witness ==
  /\ pc = "wait"
  /\ batches >= 2
  /\ Len(batch[batches - 1]) < batchSize
  /\ Len(batch[0]) = batchSize

\* ------------------------------------------------------------------------
\* C3
\* ------------------------------------------------------------------------
\* C3: the rapid-succession results returned are, as a multiset, exactly one
\* result carrying the earlier and one carrying the later transaction for
\* every pair of positions i < j of one batch with the same account and
\* 0 < diff < timeWindow, and nothing for any other pair.
C3_RapidPairResults ==
  Done => SeqBag(SelectSeq(returned, IsRapid))
            = PairResultsBag(transactions, SameBatchPairs(transactions, config))

\* a run with a qualifying pair, a same-account pair whose diff is the window
\* exactly, and a same-account pair with a negative diff
C3_Witness ==
  /\ Done
  /\ SameBatchPairs(transactions, config) # {}
  /\ \E p, q \in DOMAIN transactions :
       /\ p < q
       /\ transactions[p].AccountID = transactions[q].AccountID
       /\ transactions[q].Timestamp - transactions[p].Timestamp = config.TimeWindow
  /\ \E p, q \in DOMAIN transactions :
       /\ p < q
       /\ transactions[p].AccountID = transactions[q].AccountID
       /\ transactions[q].Timestamp - transactions[p].Timestamp < 0

\* ------------------------------------------------------------------------
\* C4
\* ------------------------------------------------------------------------
HighAmountResult(tx) == FraudResult(tx, HighAmountReason(tx))

\* C4: the High Amount results returned are, as a multiset, exactly one per
\* input position whose amount is strictly greater than the threshold; no
\* High Amount result carries an amount equal to or below the threshold.
C4_HighAmountIff ==
  Done =>
    /\ \A p \in DOMAIN transactions :
         Copies(SeqBag(returned), HighAmountResult(transactions[p]))
           = IF transactions[p].Amount > config.HighAmountThreshold
             THEN Cardinality(PositionsOf(transactions, transactions[p]))
             ELSE 0
    /\ \A k \in DOMAIN returned :
         IsHighAmount(returned[k]) =>
           /\ returned[k].Transaction.Amount > config.HighAmountThreshold
           /\ returned[k] = HighAmountResult(returned[k].Transaction)
           /\ PositionsOf(transactions, returned[k].Transaction) # {}

\* a run with an amount at the threshold and one above it
C4_Witness ==
  /\ Done
  /\ \E p \in DOMAIN transactions : transactions[p].Amount = config.HighAmountThreshold
  /\ \E p \in DOMAIN transactions : transactions[p].Amount > config.HighAmountThreshold
  /\ \E k \in DOMAIN returned : IsHighAmount(returned[k])

\* ------------------------------------------------------------------------
\* C5
\* ------------------------------------------------------------------------
\* C5: a pair of positions in different batches contributes no result, even
\* when it has the same account and 0 < diff < timeWindow: the results such
\* a pair would have are returned only as often as pairs within one batch
\* produce them.
C5_CrossBatchPairsIgnored ==
  Done =>
    \A pq \in CrossBatchPairs(transactions, config) :
      LET within == PairResultsBag(transactions, SameBatchPairs(transactions, config))
          later == LaterResult(transactions[pq[1]], transactions[pq[2]])
          following == FollowingResult(transactions[pq[1]], transactions[pq[2]])
      IN /\ Copies(SeqBag(returned), later) = Copies(within, later)
         /\ Copies(SeqBag(returned), following) = Copies(within, following)

\* a run with a qualifying pair at the 0-based positions 99 and 100
C5_Witness ==
  /\ Done
  /\ <<batchSize, batchSize + 1>> \in CrossBatchPairs(transactions, config)
  /\ SelectSeq(returned, IsRapid) = << >>

\* ------------------------------------------------------------------------
\* C6
\* ------------------------------------------------------------------------
\* the goroutines' outputs concatenated in batch order, from goroutine k on
RECURSIVE ConcatOutputs(_)
ConcatOutputs(k) == IF k >= batches THEN << >> ELSE batchResults[k] \o ConcatOutputs(k + 1)

AllFinished == \A g \in Started : gpc[g] = "finished"

\* C6: when wg.Wait() has returned, every goroutine has finished and results
\* holds the output of every batch exactly once; detectFraud returns that
\* value, and results does not change from then on.
C6_ReturnsAfterAllGoroutines ==
  /\ [](pc \in {"return", "done"} =>
          /\ AllFinished
          /\ \A g \in Started : batchResults[g] = processBatch(batch[g], config)
          /\ Len(results) = Len(ConcatOutputs(0))
          /\ SeqBag(results) = SeqBag(ConcatOutputs(0)))
  /\ [](Done => returned = results)
  /\ [][(pc \in {"return", "done"} => results' = results)]_vars

\* detectFraud has returned the non-empty outputs of two batches
C6_Witness ==
  /\ Done
  /\ batches >= 2
  /\ \E g, h \in Started : g # h /\ batchResults[g] # << >> /\ batchResults[h] # << >>
  /\ returned # << >>

\* ------------------------------------------------------------------------
\* C7
\* ------------------------------------------------------------------------
\* C7: at most one goroutine is between mu.Lock and mu.Unlock, and it is the
\* holder of mu; results is read and written by a goroutine only while it
\* holds mu, and by detectFraud only when every goroutine has finished; every
\* store extends the current results by the goroutine's own output.
C7_AppendsSerialized ==
  /\ [](/\ Cardinality({ g \in Goroutines : InCriticalSection(g) }) <= 1
        /\ \A g \in Goroutines : InCriticalSection(g) <=> mu = <<g>>)
  /\ [][/\ \A g \in Goroutines :
             /\ appended'[g] # appended[g] => mu = <<g>>
             /\ gpc[g] = "store" /\ gpc'[g] = "unlock" =>
                  mu = <<g>> /\ results' = results \o batchResults[g]
        /\ results' # results => \E g \in Goroutines : gpc[g] = "store" /\ gpc'[g] = "unlock"
        /\ returned' # returned => AllFinished]_vars

\* one goroutine is storing its non-empty output while another one, whose
\* output is not empty either, waits for the mutex
C7_Witness ==
  \E g, h \in Goroutines :
    /\ g # h
    /\ gpc[g] = "store"
    /\ gpc[h] = "lock"
    /\ batchResults[g] # << >>
    /\ batchResults[h] # << >>

\* ------------------------------------------------------------------------
\* C8
\* ------------------------------------------------------------------------
\* r is a merge of the sequences seqs[g], g in gs, that keeps the order of each
RECURSIVE IsMerge(_, _, _)
IsMerge(r, seqs, gs) ==
  IF r = << >> THEN \A g \in gs : seqs[g] = << >>
  ELSE \E g \in gs :
         /\ seqs[g] # << >>
         /\ Head(seqs[g]) = Head(r)
         /\ IsMerge(Tail(r), [seqs EXCEPT ![g] = Tail(seqs[g])], gs)

\* C8: the value returned is an order-preserving merge of the batch outputs:
\* the results of one batch keep the order in which processBatch produced
\* them, whatever the interleaving.
C8_BatchOrderPreserved ==
  Done => IsMerge(returned, [g \in Goroutines |-> processBatch(batch[g], config)], Started)

\* a batch with several results was merged after a later batch
C8_Witness ==
  /\ Done
  /\ returned # SequentialResults(transactions, config, 0)
  /\ \E g, h \in Started :
       /\ g < h
       /\ batchResults[g] # << >>
       /\ Len(batchResults[h]) >= 2
       /\ batchResults[h][1] # batchResults[h][2]
       /\ returned = batchResults[h] \o batchResults[g]

\* ------------------------------------------------------------------------
\* C9
\* ------------------------------------------------------------------------
\* C9: a run whose time window is zero or negative is rejected before any
\* partitioning or rule evaluation, so that it returns no result, not even a
\* High Amount result.
C9_NonPositiveWindowNoResults ==
  config.TimeWindow <= 0 /\ Done => returned = << >>

\* ------------------------------------------------------------------------
\* C11
\* ------------------------------------------------------------------------
\* C11: for an empty input detectFraud creates zero batches and starts no
\* goroutine, the WaitGroup counter stays zero so that neither the loop nor
\* wg.Wait() blocks, nobody touches the mutex or results, and the value
\* returned is empty.
C11_EmptyInputNoBatches ==
  Len(transactions) = 0 =>
    /\ pc # "partition" => batches = 0
    /\ \A g \in Goroutines : gpc[g] = "notStarted"
    /\ wg = 0
    /\ mu = << >>
    /\ results = << >>
    /\ pc = "loop" => ~(i < batches)
    /\ pc = "wait" => WaitEnabled(wg)
    /\ Done => returned = << >>

\* detectFraud has returned from a run on the empty input
C11_Witness ==
  /\ Done
  /\ transactions = << >>
  /\ batches = 0
  /\ returned = << >>

\* ------------------------------------------------------------------------
\* C12
\* ------------------------------------------------------------------------
\* C12: under fair scheduling every run terminates: detectFraud eventually
\* returns, and when it has, a goroutine was started for every batch and each
\* of them has computed its batch, held and released the mutex and called
\* wg.Done(); before the return some step is always possible.
C12_RunTerminates ==
  /\ <>Done
  /\ [](Done => /\ batches = NumBatches(Len(transactions))
                /\ AllFinished
                /\ wg = 0
                /\ mu = << >>)
  /\ [](~Done => ENABLED Next)

\* detectFraud has returned from a run in which a goroutine had to wait for
\* the mutex held by another one: its append read a non-empty results
C12_Witness ==
  /\ Done
  /\ batches >= 2
  /\ AllFinished
  /\ wg = 0
  /\ mu = << >>
  /\ \E g \in Started : appended[g] # batchResults[g]

\* ------------------------------------------------------------------------
\* C13
\* ------------------------------------------------------------------------
\* tx is carried by a rapid-succession result of the returned value
FlaggedRapid(tx) ==
  \E k \in DOMAIN returned : IsRapid(returned[k]) /\ returned[k].Transaction = tx

\* C13: whenever two transactions of the input have the same account and
\* timestamps that differ by less than the time window, both of them are
\* flagged by the rapid-succession rule in the value returned. The statement
\* is taken in its narrowest reading: the transaction with the later
\* timestamp also comes later in the input, and the timestamps are not equal.
C13_SameAccountWithinWindowFlagged ==
  Done =>
    \A pq \in QualifyingPairs(transactions, config) :
      FlaggedRapid(transactions[pq[1]]) /\ FlaggedRapid(transactions[pq[2]])

\* ------------------------------------------------------------------------
\* C14
\* ------------------------------------------------------------------------
\* the positions of the batch of position p
BatchPositions(p) ==
  { q \in DOMAIN transactions : BatchOf(q) = BatchOf(p) }

\* r carries, unchanged, an input transaction that produces r
ProducedFor(r) ==
  \E p \in PositionsOf(transactions, r.Transaction) :
    \/ r = HighAmountResult(transactions[p])
    \/ \E q \in BatchPositions(p) :
         \/ p < q /\ r = LaterResult(transactions[p], transactions[q])
         \/ q < p /\ r = FollowingResult(transactions[q], transactions[p])

\* C14: no step of a run changes the transactions or the configuration
\* detectFraud was called with; the batch a goroutine works on is, at every
\* moment, the range of the input it was cut from; and results and the value
\* returned, empty at first, only ever change to a sequence whose every
\* element carries an input transaction, field for field, that produces it.
C14_InputNeverModified ==
  /\ results = << >> /\ returned = << >>
  /\ [][transactions' = transactions /\ config' = config]_vars
  /\ [](\A g \in Goroutines :
          gpc[g] # "notStarted" => batch[g] = BatchSlice(transactions, g))
  /\ [][/\ results' # results => \A k \in DOMAIN results' : ProducedFor(results'[k])
        /\ returned' # returned => \A k \in DOMAIN returned' : ProducedFor(returned'[k])]_vars

\* detectFraud has returned High Amount and rapid-succession results of
\* several batches
C14_Witness ==
  /\ Done
  /\ batches >= 2
  /\ \E k \in DOMAIN returned : IsHighAmount(returned[k])
  /\ \E k \in DOMAIN returned : IsRapid(returned[k])
  /\ \E g, h \in Started : g # h /\ batchResults[g] # << >> /\ batchResults[h] # << >>

\* ------------------------------------------------------------------------
\* C15
\* ------------------------------------------------------------------------
\* every High Amount result returned carries a positive amount
HighAmountsPositive ==
  \A k \in DOMAIN returned : IsHighAmount(returned[k]) => returned[k].Transaction.Amount > 0

\* C15, as stated: under every configuration detectFraud runs with, no
\* transaction with a zero or negative amount gets a High Amount result.
C15_NonPositiveAmountNeverHigh == Done => HighAmountsPositive

\* C15, amended: under every configuration whose threshold is not negative,
\* no transaction with a zero or negative amount gets a High Amount result.
C15_NonPositiveAmountNotHighAboveZeroThreshold ==
  Done /\ config.HighAmountThreshold >= 0 => HighAmountsPositive

\* a run with threshold zero on an input with a zero, a negative and a
\* positive amount, of which only the positive one got a High Amount result
C15_Witness ==
  /\ Done
  /\ config.HighAmountThreshold = 0
  /\ \E p \in DOMAIN transactions : transactions[p].Amount = 0
  /\ \E p \in DOMAIN transactions : transactions[p].Amount < 0
  /\ \E k \in DOMAIN returned : IsHighAmount(returned[k])
  /\ HighAmountsPositive

\* ------------------------------------------------------------------------
\* C16
\* ------------------------------------------------------------------------
\* the input positions whose amount is above the threshold
HighPositions(txs, cfg) == { p \in DOMAIN txs : txs[p].Amount > cfg.HighAmountThreshold }

\* txs fits one batch and is a burst of one account: timestamps strictly
\* increasing with the position and any two of them less than the window apart
IsBurst(txs, cfg) ==
  /\ Len(txs) >= 1
  /\ Len(txs) <= batchSize
  /\ \A p, q \in DOMAIN txs :
       p < q => /\ txs[p].AccountID = txs[q].AccountID
                /\ txs[p].Timestamp < txs[q].Timestamp
                /\ txs[q].Timestamp - txs[p].Timestamp < cfg.TimeWindow

\* C16: the number of results returned is H + 2*P, H the number of positions
\* with amount > threshold and P the number of pairs of positions i < j of
\* one batch with the same account and 0 < diff < timeWindow, one result per
\* trigger; an input that is a burst of k transactions of one account within
\* one batch yields k*(k-1) rapid-succession results.
C16_ResultCount ==
  Done =>
    /\ Len(returned) = Cardinality(HighPositions(transactions, config))
                       + 2 * Cardinality(SameBatchPairs(transactions, config))
    /\ Len(SelectSeq(returned, IsHighAmount)) = Cardinality(HighPositions(transactions, config))
    /\ Len(SelectSeq(returned, IsRapid)) = 2 * Cardinality(SameBatchPairs(transactions, config))
    /\ IsBurst(transactions, config) =>
         Len(SelectSeq(returned, IsRapid)) = Len(transactions) * (Len(transactions) - 1)

\* a burst of three transactions, two of them above the threshold as well:
\* six rapid-succession results and two High Amount results
C16_Witness ==
  /\ Done
  /\ Len(transactions) = 3
  /\ IsBurst(transactions, config)
  /\ Len(SelectSeq(returned, IsRapid)) = 6
  /\ Len(SelectSeq(returned, IsHighAmount)) = 2
  /\ Len(returned) = 8

\* ------------------------------------------------------------------------
\* C17
\* ------------------------------------------------------------------------
\* the goroutines whose output has been stored into results
Stored == { g \in Goroutines : gpc[g] \in {"unlock", "wgDone", "finished"} }

\* r is the concatenation of the sequences seqs[g], g in gs, each taken once
\* and whole, in some order of gs
RECURSIVE IsBlockConcat(_, _, _)
IsBlockConcat(r, seqs, gs) ==
  IF gs = {} THEN r = << >>
  ELSE \E g \in gs :
         /\ Len(seqs[g]) <= Len(r)
         /\ SubSeq(r, 1, Len(seqs[g])) = seqs[g]
         /\ IsBlockConcat(SubSeq(r, Len(seqs[g]) + 1, Len(r)), seqs, gs \ {g})

\* C17: at every moment results is the concatenation, in some order, of the
\* whole outputs of the goroutines that have stored theirs, so that each
\* batch's results form one contiguous block; the value returned is such a
\* concatenation of the processBatch outputs of all the batches.
C17_BatchBlocksContiguous ==
  /\ IsBlockConcat(results, batchResults, Stored)
  /\ Done => IsBlockConcat(returned, [g \in Goroutines |-> processBatch(batch[g], config)], Started)

\* a goroutine has just stored its non-empty output behind the block of
\* several distinct results of a later batch, while another still runs
C17_Witness ==
  \E g, h \in Started :
    /\ g < h
    /\ gpc[g] = "unlock"
    /\ gpc[h] = "finished"
    /\ batchResults[g] # << >>
    /\ Len(batchResults[h]) >= 2
    /\ batchResults[h][1] # batchResults[h][2]
    /\ results = batchResults[h] \o batchResults[g]
    /\ \E f \in Started : gpc[f] \in {"processBatch", "lock"}
====
